---- MODULE Spec2Model ----
(***************************************************************************)
(* The paging simulation of the Memory_allocation-Tracker repository:      *)
(*   - PageTableSimulator            (src/Memory_track.py)                 *)
(*   - EnhancedPagingSystem address translation                            *)
(*                                    (src/enhanced_paging_system.py)      *)
(*   - PageReplacementWidget          (src/enhanced_paging_system.py)      *)
(*   - generate_page_table, generate_memory_access  (src/Memory_track.py)  *)
(*   - DataCollector and the handlers of MemoryVisualizerApp that use it   *)
(*                                    (src/Memory_track.py)                *)
(* Every random draw of the code (random.random, random.randint,           *)
(* random.choice) is a nondeterministic choice over its possible outcomes. *)
(***************************************************************************)
EXTENDS Integers, Sequences, FiniteSets, TLC

(***************************************************************************)
(* Bounds of the model.                                                    *)
(***************************************************************************)
\* PageTableSimulator(num_processes, pages_per_process): constructor arguments
num_processes == 2
pages_per_process == 1
\* frames are drawn by random.randint(1, 20); the model draws from 1..MaxFrame
MaxFrame == 2
\* number of access_page calls explored (caps the counters hits/misses/faults)
MaxAccesses == 3
\* "Keep history to last 20 accesses"; the model keeps the last HISTORY_LIMIT
HISTORY_LIMIT == 2
\* init_page_table builds num_pages = 10 entries and generate_page_table is
\* given num_pages; the model builds num_pages entries
num_pages == 2
\* init_page_table, generate_page_table and generate_memory_access draw
\* frames from 1..20; the model draws from 1..MaxTableFrame
MaxTableFrame == 1
\* PageReplacementWidget has 5 frames; the model has NumFrames
NumFrames == 2
\* reference strings are 20 draws of random.randint(0, 9); the model draws
\* RefLength pages from 0..MaxRefPage
RefLength == 4
MaxRefPage == 2
\* data_ready signals that wait for the GUI thread; the model keeps count of
\* up to MaxPending of them
MaxPending == 2

(***************************************************************************)
(* Program constants.                                                      *)
(***************************************************************************)
\* Python's None, the 'no frame' placeholder of PageTableSimulator
None == -1

VARIABLES
    processes,        \* PageTableSimulator.processes: name -> page -> entry
    physical_frames,  \* PageTableSimulator.physical_frames: frame -> occupant
    access_history,   \* PageTableSimulator.access_history
    results,          \* the record simulate_random_access builds for the last call
    process_combo,    \* EnhancedPagingSystem.process_combo.currentText()
    page_size,        \* AddressTranslationWidget.page_size
    page_table,       \* AddressTranslationWidget.page_table: page -> entry
    mapping,          \* the address mapping AddressTranslationWidget displays
    args,             \* the arguments generate_memory_access is called with
    access,           \* the PageAccessResult generate_memory_access returns
    returned,         \* the values access_page has returned so far, in order
    stats,            \* the value get_access_stats returned last
    algo_combo,       \* EnhancedPagingSystem.algo_combo.currentText()
    algorithm,        \* PageReplacementWidget.algorithm
    frames,           \* PageReplacementWidget.frames
    reference_string, \* PageReplacementWidget.reference_string
    current_step,     \* PageReplacementWidget.current_step
    page_faults,      \* PageReplacementWidget.page_faults
    animation_active, \* PageReplacementWidget.animation_active
    start_btn,        \* EnhancedPagingSystem.start_btn.text()
    load_step,        \* history: for each page, the step that loaded it last
    running,          \* DataCollector.running
    collector,        \* where the collector thread is in DataCollector.run
    data_ready,       \* data_ready signals emitted and not yet delivered
    gui,              \* what the GUI thread of MemoryVisualizerApp is doing
    calling,          \* the DataCollector method the GUI thread is executing
    refresh_rate,     \* DataCollector.refresh_rate
    current_index,    \* MemoryVisualizerApp.stacked_widget.currentIndex()
    after_stop        \* history: calls, signals and retries since running is False

simVars == <<processes, physical_frames, access_history, results, returned, stats>>

epsVars == <<process_combo, page_size, page_table, mapping>>

genVars == <<args, access>>

replVars == <<algo_combo, algorithm, frames, reference_string, current_step, page_faults, animation_active, start_btn, load_step>>

colVars == <<running, collector, data_ready, gui, calling, refresh_rate, current_index, after_stop>>

vars == <<processes, physical_frames, access_history, results,
          process_combo, page_size, page_table, mapping, args, access,
          returned, stats, algo_combo, algorithm, frames, reference_string,
          current_step, page_faults, animation_active, start_btn, load_step,
          running, collector, data_ready, gui, calling, refresh_rate,
          current_index, after_stop>>

(***************************************************************************)
(* PageTableSimulator                                                      *)
(***************************************************************************)
Frames == 1..MaxFrame

\* f"Process {chr(65 + i)}"
ProcessName(i) ==
    <<"Process A", "Process B", "Process C", "Process D", "Process E",
      "Process F">>[i + 1]

process_names == {ProcessName(i) : i \in 0..(num_processes - 1)}

Pages == 0..(pages_per_process - 1)

ProcessIndex(name) == CHOOSE i \in 0..(num_processes - 1) : ProcessName(i) = name

\* position of (name, page) in the nested loops of _initialize_processes
LoopRank(name, page) == ProcessIndex(name) * pages_per_process + page

\* one iteration of the inner loop: the entry built for a page
NewEntry(in_memory, frame, referenced, modified) ==
    [Physical_Frame |-> IF in_memory THEN frame ELSE None,
     Valid_Bit      |-> IF in_memory THEN 1 ELSE 0,
     Referenced     |-> referenced,
     Modified       |-> modified]

InitialEntries ==
    {NewEntry(in_memory, frame, referenced, modified) :
        in_memory \in BOOLEAN, frame \in Frames,
        referenced \in {0, 1}, modified \in {0, 1}}

\* physical_frames[frame] = {...} is assigned in loop order: the last page
\* that drew a frame is the one recorded for it
InitialFrames(procs) ==
    LET Bound(f) == {pn \in process_names \X Pages :
                        procs[pn[1]][pn[2]].Physical_Frame = f}
        Last(f)  == CHOOSE pn \in Bound(f) :
                        \A qn \in Bound(f) :
                            LoopRank(qn[1], qn[2]) <= LoopRank(pn[1], pn[2])
    IN  [f \in {g \in Frames : Bound(g) # {}} |->
            [process |-> Last(f)[1], page |-> Last(f)[2]]]

NoCall == [process |-> "", page |-> None, result |-> ""]

\* get_access_stats has not been called.  Once it has, the caller holds the
\* access_history dictionary itself, which later calls of access_page update
\* in place.
NoStats == [hits |-> None, misses |-> None, faults |-> None, history |-> <<>>]

InitSimulator ==
    /\ processes \in [process_names -> [Pages -> InitialEntries]]
    /\ physical_frames = InitialFrames(processes)
    /\ access_history = [hits |-> 0, misses |-> 0, faults |-> 0, history |-> <<>>]
    /\ results = NoCall
    /\ returned = <<>>
    /\ stats = NoStats

\* Classify with the Valid Bit test inverted: resident pages fault
Classify_ValidBitInverted(procs, process_name, page_num, tlb) ==
    IF process_name \notin DOMAIN procs THEN "fault"
    ELSE IF page_num \notin DOMAIN procs[process_name] THEN "fault"
    ELSE IF procs[process_name][page_num].Valid_Bit = 1 THEN "fault"
    ELSE tlb

\* the if/elif chain of access_page; tlb is the outcome of the TLB draw
Classify(procs, process_name, page_num, tlb) ==
    IF process_name \notin DOMAIN procs THEN "fault"
    ELSE IF page_num \notin DOMAIN procs[process_name] THEN "fault"
    ELSE IF procs[process_name][page_num].Valid_Bit = 0 THEN "fault"
    ELSE tlb

\* does the call take the branch that handles the fault (lines 164-175)
TakesFaultPath(procs, process_name, page_num) ==
    /\ process_name \in DOMAIN procs
    /\ page_num \in DOMAIN procs[process_name]
    /\ procs[process_name][page_num].Valid_Bit = 0

\* does the call take the final else branch (lines 176-188)
TakesValidPath(procs, process_name, page_num) ==
    /\ process_name \in DOMAIN procs
    /\ page_num \in DOMAIN procs[process_name]
    /\ procs[process_name][page_num].Valid_Bit # 0

\* LoadPage that also marks the page referenced
LoadPage_MarksReferenced(entry, frame) ==
    [entry EXCEPT !.Physical_Frame = frame, !.Valid_Bit = 1, !.Referenced = 1]

\* LoadPage without the assignment of the Valid Bit
LoadPage_ValidBitNotSet(entry, frame) ==
    [entry EXCEPT !.Physical_Frame = frame]

\* "Simulate page fault handling - load page into memory"
LoadPage(entry, frame) ==
    [entry EXCEPT !.Physical_Frame = frame, !.Valid_Bit = 1]

\* BindFrame that records the occupant under the next frame number
BindFrame_NextFrame(occupants, frame, process_name, page_num) ==
    [f \in (DOMAIN occupants) \cup {frame + 1} |->
        IF f = frame + 1 THEN [process |-> process_name, page |-> page_num]
        ELSE occupants[f]]

\* self.physical_frames[frame] = {'process': ..., 'page': ...}
BindFrame(occupants, frame, process_name, page_num) ==
    [f \in (DOMAIN occupants) \cup {frame} |->
        IF f = frame THEN [process |-> process_name, page |-> page_num]
        ELSE occupants[f]]

\* Touch that takes the frame away from the page
Touch_FrameCleared(entry, modify) ==
    [entry EXCEPT !.Referenced = 1, !.Physical_Frame = None,
                  !.Modified = IF modify THEN 1 ELSE @]

\* Touch without the assignment of the Referenced bit
Touch_NotReferenced(entry, modify) ==
    [entry EXCEPT !.Modified = IF modify THEN 1 ELSE @]

\* "Mark as referenced" and the 30% chance of modifying the page
Touch(entry, modify) ==
    [entry EXCEPT !.Referenced = 1,
                  !.Modified = IF modify THEN 1 ELSE @]

\* a slice that keeps the oldest n entries
LastN_KeepsOldest(h, n) == IF Len(h) > n THEN SubSeq(h, 1, n) ELSE h

\* history[-20:]
LastN(h, n) == IF Len(h) > n THEN SubSeq(h, Len(h) - n + 1, Len(h)) ELSE h

\* an update that counts a 'miss' as a hit
RecordAccess_MissCountedAsHit(history, result) ==
    [hits |-> IF result \in {"hit", "miss"} THEN history.hits + 1 ELSE history.hits,
     misses |-> history.misses,
     faults |-> IF result = "fault" THEN history.faults + 1 ELSE history.faults,
     history |-> Append(history.history, result)]

\* "Update access history"
RecordAccess(history, result) ==
    LET counted ==
            IF result = "hit" THEN [history EXCEPT !.hits = @ + 1]
            ELSE IF result = "miss" THEN [history EXCEPT !.misses = @ + 1]
            ELSE [history EXCEPT !.faults = @ + 1]
        appended == Append(counted.history, result)
    IN  [counted EXCEPT !.history =
            IF Len(appended) > HISTORY_LIMIT
            THEN LastN(appended, HISTORY_LIMIT) ELSE appended]

Accesses(history) == history.hits + history.misses + history.faults

\* access_page(process_name, page_num); frame, tlb and modify are the draws
access_page(process_name, page_num, frame, tlb, modify) ==
    LET result == Classify(processes, process_name, page_num, tlb) IN
    /\ Accesses(access_history) < MaxAccesses
    /\ IF TakesFaultPath(processes, process_name, page_num)
       THEN /\ processes' = [processes EXCEPT ![process_name][page_num] =
                                LoadPage(@, frame)]
            /\ physical_frames' =
                   BindFrame(physical_frames, frame, process_name, page_num)
       ELSE IF TakesValidPath(processes, process_name, page_num)
       THEN /\ processes' = [processes EXCEPT ![process_name][page_num] =
                                Touch(@, modify)]
            /\ UNCHANGED physical_frames
       ELSE UNCHANGED <<processes, physical_frames>>
    /\ access_history' = RecordAccess(access_history, result)
    /\ results' = [process |-> process_name, page |-> page_num,
                   result |-> result]
    /\ returned' = Append(returned, result)
    /\ stats' = IF stats = NoStats THEN NoStats ELSE access_history'
    /\ UNCHANGED <<epsVars, genVars, replVars, colVars>>

\* get_access_stats that counts its own calls in the dictionary it returns
get_access_stats_CountsCalls(history) ==
    [history EXCEPT !.hits = IF stats = NoStats THEN @ ELSE stats.hits + 1]

\* get_access_stats(): "return self.access_history", the dictionary itself
get_access_stats(history) == history

\* one call of get_access_stats; nothing but the returned value changes
GetAccessStats ==
    /\ DOMAIN processes # {}
    /\ stats' = get_access_stats(access_history)
    /\ UNCHANGED <<processes, physical_frames, access_history, results, returned>>
    /\ UNCHANGED <<epsVars, genVars, replVars, colVars>>

\* arguments a caller can pass: every known process and page, one unknown
\* process name and one page number outside the table
ProcessArgs == process_names \cup {"Process ?"}
PageArgs == 0..pages_per_process

\* one call with its random draws; a draw the taken branch never makes is
\* not enumerated
AccessPage ==
    \E process_name \in ProcessArgs, page_num \in PageArgs :
        IF TakesFaultPath(processes, process_name, page_num)
        THEN \E frame \in Frames :
                access_page(process_name, page_num, frame, "hit", FALSE)
        ELSE IF TakesValidPath(processes, process_name, page_num)
        THEN \E tlb \in {"hit", "miss"}, modify \in BOOLEAN :
                access_page(process_name, page_num, 1, tlb, modify)
        ELSE access_page(process_name, page_num, 1, "hit", FALSE)

\* simulate_random_access(): random.choice of a process and of one of its
\* pages, then access_page; results is the dictionary it returns
SimulateRandomAccess ==
    \E process_name \in DOMAIN processes :
        \E page_num \in DOMAIN processes[process_name] :
            IF TakesFaultPath(processes, process_name, page_num)
            THEN \E frame \in Frames :
                    access_page(process_name, page_num, frame, "hit", FALSE)
            ELSE \E tlb \in {"hit", "miss"}, modify \in BOOLEAN :
                    access_page(process_name, page_num, 1, tlb, modify)

(***************************************************************************)
(* EnhancedPagingSystem: the address translation tab                       *)
(***************************************************************************)
TableFrames == 1..MaxTableFrame

\* the pages init_page_table creates: range(num_pages)
TablePages == 0..(num_pages - 1)

\* process_combo.addItems(["Process A", "Process B", "Process C"])
ProcessItems == {"Process A", "Process B", "Process C"}

\* page_size_combo items "4 KB", "8 KB", "16 KB", "64 KB": int(text) * 1024
PageSizes == {4 * 1024, 8 * 1024, 16 * 1024, 64 * 1024}

PageTableEntry(virtual_page, physical_frame, valid_bit, referenced, modified) ==
    [virtual_page   |-> virtual_page,
     physical_frame |-> physical_frame,
     valid_bit      |-> valid_bit,
     referenced     |-> referenced,
     modified       |-> modified]

\* the entry init_page_table builds for page i of process_name; is_valid,
\* frame, ref and mod are the random draws of the iteration
TableEntry(process_name, i, is_valid, frame, ref, mod) ==
    IF process_name = "Process A"
    THEN PageTableEntry(i, IF is_valid THEN frame ELSE 0,
                        IF is_valid THEN 1 ELSE 0, ref, mod)
    ELSE IF process_name = "Process B"
    THEN PageTableEntry(i, IF is_valid THEN (i % 10) + 1 ELSE 0,
                        IF is_valid THEN 1 ELSE 0,
                        i % 2, IF i % 3 = 0 THEN 1 ELSE 0)
    ELSE PageTableEntry(i, IF is_valid THEN 7 + i ELSE 0,
                        IF i < 5 THEN 1 ELSE 0,
                        IF i = 1 THEN 1 ELSE 0, IF i = 0 THEN 1 ELSE 0)

\* the loop of init_page_table: one set of draws per page
PageTables(process_name) ==
    {[i \in TablePages |->
        TableEntry(process_name, i, is_valid[i], frame[i], ref[i], mod[i])] :
        is_valid \in [TablePages -> BOOLEAN], frame \in [TablePages -> TableFrames],
        ref \in [TablePages -> {0, 1}], mod \in [TablePages -> {0, 1}]}

\* every page table init_page_table can build, by process name
PageTablesOf == [process_name \in ProcessItems |-> PageTables(process_name)]

\* AddressTranslationWidget.set_address_mapping; self carries the widget's
\* page_size and page_table, and an argument the caller leaves out is None
set_address_mapping(self, virtual_address, physical_address, page_number, frame_number, offset, result) ==
    LET widget_page_size == self.page_size
        widget_page_table == self.page_table
        page == IF page_number # None THEN page_number
                ELSE virtual_address \div widget_page_size
        off  == IF offset # None THEN offset
                ELSE virtual_address % widget_page_size
        frame == IF frame_number # None THEN frame_number
                 ELSE IF page \in DOMAIN widget_page_table
                      THEN widget_page_table[page].physical_frame
                      ELSE 0
    IN  IF result = "success"
        THEN [virtual_address  |-> virtual_address,
              physical_address |-> IF physical_address = None
                                   THEN frame * widget_page_size + off
                                   ELSE physical_address,
              page_number      |-> page,
              frame_number     |-> frame,
              offset           |-> off,
              result           |-> result]
        ELSE [virtual_address  |-> virtual_address,
              physical_address |-> None,
              page_number      |-> page,
              frame_number     |-> None,
              offset           |-> off,
              result           |-> result]

\* addr // page_size and addr % page_size
PageNumber(addr, size) == addr \div size

\* Offset without the reduction modulo the page size
Offset_NotReduced(addr, size) == addr

Offset(addr, size) == addr % size

\* PhysicalAddress without the offset
PhysicalAddress_FrameBase(frame_num, size, offset) == frame_num * size

\* frame_num * page_size + offset
PhysicalAddress(frame_num, size, offset) == frame_num * size + offset

\* "Update page table (mark as referenced)" and the 20% chance to modify
MarkReferenced(entry, modify) ==
    [entry EXCEPT !.referenced = 1,
                  !.modified = IF modify THEN 1 ELSE @]

\* the handlers below are methods of the window: they run once it is built
WindowExists == process_combo \in ProcessItems

\* the AddressTranslationWidget as set_address_mapping reads it
Widget == [page_size |-> page_size, page_table |-> page_table]

\* translate_address with the decimal number addr in addr_input; modify is
\* the draw.  The status_label messages and the page_table_widget cells the
\* handler also writes are display only and are not part of the state; for
\* the same reason the ValueError branch (a text that is no number) and
\* generate_random_address, which change nothing else, are no actions.
translate_address(addr, modify) ==
    LET page_num == PageNumber(addr, page_size)
        offset   == Offset(addr, page_size)
    IN
    /\ WindowExists
    /\ IF page_num \in DOMAIN page_table
       THEN LET entry == page_table[page_num] IN
            IF entry.valid_bit = 1
            THEN LET frame_num     == entry.physical_frame
                     physical_addr == PhysicalAddress(frame_num, page_size, offset)
                 IN  /\ mapping' = set_address_mapping(Widget,
                                       addr, physical_addr, page_num, frame_num,
                                       offset, "success")
                     /\ page_table' = [page_table EXCEPT ![page_num] =
                                          MarkReferenced(@, modify)]
            ELSE /\ mapping' = set_address_mapping(Widget,
                                   addr, None, page_num, None, offset, "fault")
                 /\ UNCHANGED page_table
       ELSE /\ mapping' = set_address_mapping(Widget,
                              addr, None, page_num, None, offset, "fault")
            /\ UNCHANGED page_table
    /\ UNCHANGED <<process_combo, page_size>>
    /\ UNCHANGED <<simVars, genVars, replVars, colVars>>

\* on_process_change: the combo box now shows process_name
on_process_change(process_name) ==
    /\ WindowExists
    /\ process_name # process_combo
    /\ process_combo' = process_name
    /\ page_table' \in PageTablesOf[process_name]
    /\ UNCHANGED <<page_size, mapping>>
    /\ UNCHANGED <<simVars, genVars, replVars, colVars>>

\* on_page_size_change: the combo box now shows size
on_page_size_change(size) ==
    /\ WindowExists
    /\ size # page_size
    /\ page_size' = size
    /\ UNCHANGED <<process_combo, page_table, mapping>>
    /\ UNCHANGED <<simVars, genVars, replVars, colVars>>

\* the decimal addresses typed into addr_input (or put there by
\* generate_random_address): byte 4 of every 4 KB page 0..num_pages, the last
\* byte of page 0, and the first address that has no page table entry under
\* the largest page size
Addresses ==
    {p * (4 * 1024) + 4 : p \in 0..num_pages}
    \cup {4 * 1024 - 1, num_pages * (64 * 1024)}

TranslateAddress ==
    \E addr \in Addresses, modify \in BOOLEAN : translate_address(addr, modify)

OnProcessChange == \E process_name \in ProcessItems : on_process_change(process_name)

OnPageSizeChange == \E size \in PageSizes : on_page_size_change(size)

\* the window after EnhancedPagingSystem.__init__: the widget's defaults and
\* the page table of the first combo item
InitWindow ==
    /\ process_combo = "Process A"
    /\ page_size = 4096
    /\ page_table \in PageTablesOf["Process A"]
    /\ mapping = [virtual_address |-> 0, physical_address |-> 0,
                  page_number |-> 0, frame_number |-> 0, offset |-> 0,
                  result |-> "success"]

(***************************************************************************)
(* generate_page_table and generate_memory_access (src/Memory_track.py)    *)
(***************************************************************************)
\* the entry generate_page_table builds for page i of process_name
GeneratedEntry(process_name, i, is_valid, frame, ref, mod) ==
    IF process_name = "Process A"
    THEN PageTableEntry(i, IF is_valid THEN frame ELSE 0,
                        IF is_valid THEN 1 ELSE 0, ref, mod)
    ELSE IF process_name = "Process B"
    THEN PageTableEntry(i, IF is_valid THEN (i % 10) + 1 ELSE 0,
                        IF is_valid THEN 1 ELSE 0,
                        i % 2, IF i % 3 = 0 THEN 1 ELSE 0)
    ELSE PageTableEntry(i, IF is_valid THEN 7 + i ELSE 0,
                        IF i < 2 THEN 1 ELSE 0,
                        IF i = 1 THEN 1 ELSE 0, IF i = 0 THEN 1 ELSE 0)

\* generate_page_table(process_name, num_pages): every list it can return
generate_page_table(process_name) ==
    {[k \in 1..num_pages |->
        GeneratedEntry(process_name, k - 1, is_valid[k], frame[k], ref[k], mod[k])] :
        is_valid \in [1..num_pages -> BOOLEAN],
        frame \in [1..num_pages -> TableFrames],
        ref \in [1..num_pages -> {0, 1}], mod \in [1..num_pages -> {0, 1}]}

\* current_page_table.get(process_name, [])
TableOf(current_page_table, process_name) ==
    IF process_name \in DOMAIN current_page_table
    THEN current_page_table[process_name] ELSE <<>>

\* max([entry.virtual_page for entry in page_table]) if page_table else 5
MaxPage(table) ==
    IF table = <<>> THEN 5
    ELSE CHOOSE v \in {table[k].virtual_page : k \in 1..Len(table)} :
            \A k \in 1..Len(table) : table[k].virtual_page <= v

\* the index of the first entry of the list with that virtual page, or None
EntryIndex(table, page_number) ==
    LET found == {k \in 1..Len(table) : table[k].virtual_page = page_number}
    IN  IF found = {} THEN None
        ELSE CHOOSE k \in found : \A j \in found : k <= j

\* physical address of generate_memory_access; page_size is in KB
AccessPhysicalAddress(frame, size, offset) == (frame * size * 1024) + offset

\* virtual address of generate_memory_access
AccessVirtualAddress(page_number, size, offset) ==
    (page_number * size * 1024) + offset

\* generate_memory_access(process_name, page_size, current_page_table); draw
\* holds the random draws: page_number, offset, frame_number, is_tlb_hit and
\* modify.  The timestamp of the result is left out.
generate_memory_access(process_name, size, current_page_table, draw) ==
    LET table == TableOf(current_page_table, process_name)
        page_number == draw.page_number
        offset == draw.offset
        virtual_address == AccessVirtualAddress(page_number, size, offset)
        k == EntryIndex(table, page_number)
    IN  IF k = None
        THEN [process |-> process_name, virtual_address |-> virtual_address,
              page_number |-> page_number, offset |-> offset,
              physical_address |-> None, frame_number |-> None,
              result |-> "fault",
              message |-> "Page fault: Virtual page does not exist",
              table_updated |-> FALSE, updated_page_table |-> None]
        ELSE IF table[k].valid_bit = 0
        THEN [process |-> process_name, virtual_address |-> virtual_address,
              page_number |-> page_number, offset |-> offset,
              physical_address |-> None, frame_number |-> None,
              result |-> "fault",
              message |-> "Page fault: Page not in memory",
              table_updated |-> TRUE,
              updated_page_table |->
                  [current_page_table EXCEPT ![process_name][k] =
                      PageTableEntry(table[k].virtual_page, draw.frame_number, 1,
                                     table[k].referenced, table[k].modified)]]
        ELSE [process |-> process_name, virtual_address |-> virtual_address,
              page_number |-> page_number, offset |-> offset,
              physical_address |->
                  AccessPhysicalAddress(table[k].physical_frame, size, offset),
              frame_number |-> table[k].physical_frame,
              result |-> IF draw.is_tlb_hit THEN "hit" ELSE "miss",
              message |-> IF draw.is_tlb_hit
                          THEN "TLB Hit: Address translated successfully"
                          ELSE "TLB Miss: Found in page table",
              table_updated |-> TRUE,
              updated_page_table |->
                  [current_page_table EXCEPT ![process_name][k] =
                      PageTableEntry(table[k].virtual_page,
                                     table[k].physical_frame, table[k].valid_bit, 1,
                                     IF draw.modify THEN 1 ELSE table[k].modified)]]

\* the page numbers the function can draw: an existing page (when the 70%
\* draw says so and the table is not empty), else int(random() * (max_page + 3))
DrawnPages(table) ==
    {table[k].virtual_page : k \in 1..Len(table)} \cup 0..(MaxPage(table) + 2)

\* the offsets the model draws out of int(random() * (page_size * 1024)): the
\* first byte, byte 4 and the last byte of the page
DrawnOffsets(size) == {0, 4, size * 1024 - 1}

NoAccess ==
    [process |-> "", virtual_address |-> None, page_number |-> None,
     offset |-> None, physical_address |-> None, frame_number |-> None,
     result |-> "", message |-> "", table_updated |-> FALSE,
     updated_page_table |-> None]

\* the page sizes (in KB) the function is called with
AccessPageSizes == {4, 8}

\* the arguments of the call: a process name, a page size and a dictionary
\* that holds the generated page table of one process
InitAccess ==
    /\ \E name \in ProcessItems, size \in AccessPageSizes,
          owner \in {"Process A", "Process C"} :
            \E table \in generate_page_table(owner) :
                args = [process_name |-> name, page_size |-> size,
                        current_page_table |-> [q \in {owner} |-> table]]
    /\ access = NoAccess

\* one call of generate_memory_access on the arguments
GenerateMemoryAccess ==
    /\ args # <<>>
    /\ access = NoAccess
    /\ \E page_number \in DrawnPages(TableOf(args.current_page_table, args.process_name)),
          offset \in DrawnOffsets(args.page_size),
          frame_number \in TableFrames,
          is_tlb_hit \in BOOLEAN, modify \in BOOLEAN :
            access' = generate_memory_access(args.process_name, args.page_size,
                          args.current_page_table,
                          [page_number |-> page_number, offset |-> offset,
                           frame_number |-> frame_number,
                           is_tlb_hit |-> is_tlb_hit, modify |-> modify])
    /\ UNCHANGED args
    /\ UNCHANGED <<simVars, epsVars, replVars, colVars>>

(***************************************************************************)
(* PageReplacementWidget and its handlers (src/enhanced_paging_system.py)  *)
(***************************************************************************)
\* random.randint(0, 9)
RefPages == 0..MaxRefPage

\* the items of algo_combo
Algorithms == {"FIFO", "LRU", "Clock"}

\* [None] * len(self.frames)
EmptyFrames == [i \in 1..NumFrames |-> None]

\* no page has been loaded
NeverLoaded == [p \in RefPages |-> 0]

\* x in list
Contains(list, x) == \E i \in 1..Len(list) : list[i] = x

\* list.index(x): the first position of x (counted from 1)
IndexOf(list, x) ==
    CHOOSE i \in 1..Len(list) :
        list[i] = x /\ \A j \in 1..(i - 1) : list[j] # x

\* list.remove(x): the list without the first occurrence of x
Remove(list, x) ==
    SubSeq(list, 1, IndexOf(list, x) - 1) \o
    SubSeq(list, IndexOf(list, x) + 1, Len(list))

\* the LRU hit without the append: the page is removed from the list
HitFrames_PageDropped(alg, list, page) ==
    IF alg = "LRU" THEN Remove(list, page) ELSE list

\* page hit: LRU moves the page to the end of the list
HitFrames(alg, list, page) ==
    IF alg = "LRU" THEN Append(Remove(list, page), page) ELSE list

\* a FIFO replacement that removes the last page of the list
ReplaceFIFO_EvictsLast(list, page) ==
    Append(SubSeq(list, 1, Len(list) - 1), page)

\* FIFO: frames.pop(0); frames.append(page)
ReplaceFIFO(list, page) == Append(Tail(list), page)

\* LRU: frames.pop(0); frames.append(page)
ReplaceLRU(list, page) == Append(Tail(list), page)

\* a Clock replacement that puts the page in the frame of the victim
ReplaceClock_InPlace(list, page) == <<page>> \o Tail(list)

\* Clock: frames.pop(0); frames.append(page)
ReplaceClock(list, page) == Append(Tail(list), page)

\* "Need to replace a page"
Replace(alg, list, page) ==
    IF alg = "FIFO" THEN ReplaceFIFO(list, page)
    ELSE IF alg = "LRU" THEN ReplaceLRU(list, page)
    ELSE IF alg = "Clock" THEN ReplaceClock(list, page)
    ELSE list

\* a page fault that always loads the page into the first frame
FaultFrames_FirstFrame(alg, list, page) == [list EXCEPT ![1] = page]

\* page fault: fill the first empty frame, else replace a page
FaultFrames(alg, list, page) ==
    IF Contains(list, None)
    THEN [list EXCEPT ![IndexOf(list, None)] = page]
    ELSE Replace(alg, list, page)

\* a step that treats every reference as a page fault
StepFrames_AlwaysFault(alg, list, page) == FaultFrames(alg, list, page)

\* frames after next_step has processed a reference to page
StepFrames(alg, list, page) ==
    IF Contains(list, page) THEN HitFrames(alg, list, page)
    ELSE FaultFrames(alg, list, page)

\* a fault count that counts every reference
CountFault_EveryReference(list, page, faults) == faults + 1

\* page_faults after the step: "self.page_faults += 1" on the fault branch
CountFault(list, page, faults) ==
    IF Contains(list, page) THEN faults ELSE faults + 1

\* an animation that the end of the reference string does not stop
StillActive_NeverStops(active, step, length) == active

\* animation_active after the step: stop_animation() once current_step has
\* reached the end of the reference string
StillActive(active, step, length) == IF step >= length THEN FALSE ELSE active

\* frames and page_faults after next_step has run k times on refs, from
\* empty frames
RECURSIVE Run(_, _, _)
Run(alg, refs, k) ==
    IF k = 0 THEN [frames |-> EmptyFrames, page_faults |-> 0]
    ELSE LET before == Run(alg, refs, k - 1)
         IN  [frames |-> StepFrames(alg, before.frames, refs[k]),
              page_faults |-> CountFault(before.frames, refs[k], before.page_faults)]

\* next_step()
next_step ==
    /\ algorithm \in Algorithms
    /\ IF current_step >= Len(reference_string)
       THEN /\ animation_active' =
                   StillActive(animation_active, current_step, Len(reference_string))
            /\ UNCHANGED <<frames, page_faults, current_step, load_step>>
       ELSE LET page == reference_string[current_step + 1] IN
            /\ frames' = StepFrames(algorithm, frames, page)
            /\ page_faults' = CountFault(frames, page, page_faults)
            /\ load_step' = IF Contains(frames, page) THEN load_step
                            ELSE [load_step EXCEPT ![page] = current_step + 1]
            /\ current_step' = current_step + 1
            /\ animation_active' =
                   StillActive(animation_active, current_step + 1, Len(reference_string))
    /\ UNCHANGED <<algo_combo, algorithm, reference_string, start_btn>>
    /\ UNCHANGED <<simVars, epsVars, genVars, colVars>>

\* step_animation: the "Step" button
StepAnimation == next_step

\* timer.timeout, while the animation runs
TimerTimeout ==
    /\ animation_active
    /\ next_step

\* toggle_animation: stop_animation or start_animation, and the text of the
\* button
toggle_animation ==
    /\ algorithm \in Algorithms
    /\ animation_active' = ~animation_active
    /\ start_btn' = IF animation_active THEN "Start Animation" ELSE "Stop Animation"
    /\ UNCHANGED <<algo_combo, algorithm, frames, reference_string, current_step, page_faults, load_step>>
    /\ UNCHANGED <<simVars, epsVars, genVars, colVars>>

\* set_algorithm(algorithm)
set_algorithm(alg) ==
    /\ algorithm' = alg
    /\ current_step' = 0
    /\ page_faults' = 0
    /\ frames' = EmptyFrames
    /\ load_step' = NeverLoaded

\* on_algorithm_change: algo_combo.currentTextChanged, the combo box shows alg
on_algorithm_change(alg) ==
    /\ algorithm \in Algorithms
    /\ alg # algo_combo
    /\ algo_combo' = alg
    /\ set_algorithm(alg)
    /\ UNCHANGED <<reference_string, animation_active, start_btn>>
    /\ UNCHANGED <<simVars, epsVars, genVars, colVars>>

\* generate_reference_string(): refs is the drawn string
generate_reference_string(refs) ==
    /\ reference_string' = refs
    /\ current_step' = 0
    /\ page_faults' = 0
    /\ frames' = EmptyFrames
    /\ load_step' = NeverLoaded

\* generate_new_reference: the "Generate New Reference String" button
generate_new_reference ==
    /\ algorithm \in Algorithms
    /\ \E refs \in [1..RefLength -> RefPages] : generate_reference_string(refs)
    /\ UNCHANGED <<algo_combo, algorithm, animation_active, start_btn>>
    /\ UNCHANGED <<simVars, epsVars, genVars, colVars>>

OnAlgorithmChange == \E alg \in Algorithms : on_algorithm_change(alg)

\* PageReplacementWidget.__init__ and create_page_replacement_tab: the widget
\* starts with "LRU" while the combo box shows its first item
InitReplacement ==
    /\ algo_combo = "FIFO"
    /\ algorithm = "LRU"
    /\ frames = EmptyFrames
    /\ reference_string \in [1..RefLength -> RefPages]
    /\ current_step = 0
    /\ page_faults = 0
    /\ animation_active = FALSE
    /\ start_btn = "Start Animation"
    /\ load_step = NeverLoaded

(***************************************************************************)
(* DataCollector and the MemoryVisualizerApp handlers (src/Memory_track.py)*)
(* The collector thread runs DataCollector.run; the GUI thread runs the    *)
(* handlers.  What simulate_random_access does to the simulator is the     *)
(* action SimulateRandomAccess above; here the call is a position of the   *)
(* collector thread.                                                       *)
(***************************************************************************)
\* REFRESH_RATES and DEFAULT_REFRESH_RATE
REFRESH_RATES == {5000, 10000, 15000, 20000}

DEFAULT_REFRESH_RATE == 5000

\* the views of stacked_widget: Memory Dashboard, Process Memory, Segmentation
Views == {0, 1, 2}

\* the operations of PageTableSimulator that change it
SimulatorMutators == {"simulate_random_access", "access_page"}

\* a loop that does not test self.running
LoopTest_IgnoresRunning(run) == "get_system_data"

\* "while self.running:"
LoopTest(run) == IF run THEN "get_system_data" ELSE "finished"

\* an update_ui that runs simulate_random_access itself
HandlerCalls_UpdateUiSimulates(handler, index) ==
    IF handler = "update_ui" THEN "simulate_random_access"
    ELSE IF handler = "on_process_select" THEN "generate_memory_segments"
    ELSE IF handler = "on_refresh_rate_change" THEN "set_refresh_rate"
    ELSE IF handler = "closeEvent" THEN "stop"
    ELSE ""

\* the method of data_collector a handler of the GUI thread calls; update_ui
\* calls one only through update_segmentation (view 2)
HandlerCalls(handler, index) ==
    IF handler = "update_ui"
    THEN IF index = 2 THEN "generate_memory_segments" ELSE ""
    ELSE IF handler = "on_process_select" THEN "generate_memory_segments"
    ELSE IF handler = "on_refresh_rate_change" THEN "set_refresh_rate"
    ELSE IF handler = "closeEvent" THEN "stop"
    ELSE ""

\* one more call or signal, counted only once running is False
CountAfterStop(count) == IF running THEN count ELSE IF count < 2 THEN count + 1 ELSE 2

\* run(): the test of the while loop
LoopTestStep ==
    /\ collector = "test"
    /\ collector' = LoopTest(running)
    /\ UNCHANGED <<running, data_ready, gui, calling, refresh_rate, current_index, after_stop>>
    /\ UNCHANGED <<simVars, epsVars, genVars, replVars>>

\* get_system_data(): the psutil queries went through and
\* page_simulator.simulate_random_access(1) is called
GetSystemData ==
    /\ collector = "get_system_data"
    /\ collector' = "access_page"
    /\ after_stop' = [after_stop EXCEPT !.accesses = CountAfterStop(@)]
    /\ UNCHANGED <<running, data_ready, gui, calling, refresh_rate, current_index>>
    /\ UNCHANGED <<simVars, epsVars, genVars, replVars>>

\* get_system_data() raises: "except Exception", then time.sleep(1)
RaiseException ==
    /\ collector = "get_system_data"
    /\ collector' = "retry"
    /\ UNCHANGED <<running, data_ready, gui, calling, refresh_rate, current_index, after_stop>>
    /\ UNCHANGED <<simVars, epsVars, genVars, replVars>>

\* simulate_random_access returns and get_system_data returns the data
AccessReturns ==
    /\ collector = "access_page"
    /\ collector' = "emit"
    /\ UNCHANGED <<running, data_ready, gui, calling, refresh_rate, current_index, after_stop>>
    /\ UNCHANGED <<simVars, epsVars, genVars, replVars>>

\* self.data_ready.emit(data): the signal is queued for the GUI thread
Emit ==
    /\ collector = "emit"
    /\ collector' = "sleep"
    /\ data_ready' = IF data_ready < MaxPending THEN data_ready + 1 ELSE data_ready
    /\ after_stop' = [after_stop EXCEPT !.emits = CountAfterStop(@)]
    /\ UNCHANGED <<running, gui, calling, refresh_rate, current_index>>
    /\ UNCHANGED <<simVars, epsVars, genVars, replVars>>

\* time.sleep(self.refresh_rate / 1000) is over
Sleep ==
    /\ collector = "sleep"
    /\ collector' = "test"
    /\ UNCHANGED <<running, data_ready, gui, calling, refresh_rate, current_index, after_stop>>
    /\ UNCHANGED <<simVars, epsVars, genVars, replVars>>

\* the time.sleep(1) of the except branch is over
Retry ==
    /\ collector = "retry"
    /\ collector' = "test"
    /\ after_stop' = [after_stop EXCEPT !.retried = @ \/ ~running]
    /\ UNCHANGED <<running, data_ready, gui, calling, refresh_rate, current_index>>
    /\ UNCHANGED <<simVars, epsVars, genVars, replVars>>

\* the steps of the collector thread
CollectorStep ==
    \/ LoopTestStep
    \/ GetSystemData
    \/ RaiseException
    \/ AccessReturns
    \/ Emit
    \/ Sleep
    \/ Retry

\* update_ui(data): a queued data_ready signal is delivered
update_ui ==
    /\ gui = "idle"
    /\ data_ready > 0
    /\ data_ready' = data_ready - 1
    /\ gui' = "update_ui"
    /\ calling' = HandlerCalls("update_ui", current_index)
    /\ UNCHANGED <<running, collector, refresh_rate, current_index, after_stop>>
    /\ UNCHANGED <<simVars, epsVars, genVars, replVars>>

\* on_process_select(): with a selected item it generates memory segments
on_process_select ==
    /\ gui = "idle"
    /\ gui' = "on_process_select"
    /\ \E selected \in BOOLEAN :
          calling' = IF selected
                     THEN HandlerCalls("on_process_select", current_index) ELSE ""
    /\ UNCHANGED <<running, collector, data_ready, refresh_rate, current_index, after_stop>>
    /\ UNCHANGED <<simVars, epsVars, genVars, replVars>>

\* on_refresh_rate_change(index): data_collector.set_refresh_rate(rate)
on_refresh_rate_change(rate) ==
    /\ gui = "idle"
    /\ rate # refresh_rate
    /\ gui' = "on_refresh_rate_change"
    /\ calling' = HandlerCalls("on_refresh_rate_change", current_index)
    /\ refresh_rate' = rate
    /\ UNCHANGED <<running, collector, data_ready, current_index, after_stop>>
    /\ UNCHANGED <<simVars, epsVars, genVars, replVars>>

OnRefreshRateChange == \E rate \in REFRESH_RATES : on_refresh_rate_change(rate)

\* show_view(view_name)
show_view(index) ==
    /\ gui = "idle"
    /\ index # current_index
    /\ current_index' = index
    /\ UNCHANGED <<running, collector, data_ready, gui, calling, refresh_rate, after_stop>>
    /\ UNCHANGED <<simVars, epsVars, genVars, replVars>>

ShowView == \E index \in Views : show_view(index)

\* the handler returns to the event loop
HandlerReturns ==
    /\ gui \in {"update_ui", "on_process_select", "on_refresh_rate_change"}
    /\ gui' = "idle"
    /\ calling' = ""
    /\ UNCHANGED <<running, collector, data_ready, refresh_rate, current_index, after_stop>>
    /\ UNCHANGED <<simVars, epsVars, genVars, replVars>>

\* closeEvent: data_collector.stop() sets running to False and waits
closeEvent ==
    /\ gui = "idle"
    /\ running' = FALSE
    /\ gui' = "wait"
    /\ calling' = HandlerCalls("closeEvent", current_index)
    /\ UNCHANGED <<collector, data_ready, refresh_rate, current_index, after_stop>>
    /\ UNCHANGED <<simVars, epsVars, genVars, replVars>>

\* self.wait() returns once run() has returned; event.accept()
WaitReturns ==
    /\ gui = "wait"
    /\ collector = "finished"
    /\ gui' = "closed"
    /\ calling' = ""
    /\ UNCHANGED <<running, collector, data_ready, refresh_rate, current_index, after_stop>>
    /\ UNCHANGED <<simVars, epsVars, genVars, replVars>>

\* MemoryVisualizerApp.__init__: the collector is constructed and started
InitCollector ==
    /\ running = TRUE
    /\ collector = "test"
    /\ data_ready = 0
    /\ gui = "idle"
    /\ calling = ""
    /\ refresh_rate = DEFAULT_REFRESH_RATE
    /\ current_index = 0
    /\ after_stop = [accesses |-> 0, emits |-> 0, retried |-> FALSE]

(***************************************************************************)
(* Specifications.  Memory_track.py and enhanced_paging_system.py are two  *)
(* programs; each specification runs one of them and leaves the state of  *)
(* the other as it is before that program is started.                     *)
(***************************************************************************)
NoSimulator ==
    /\ processes = <<>>
    /\ physical_frames = <<>>
    /\ access_history = [hits |-> 0, misses |-> 0, faults |-> 0, history |-> <<>>]
    /\ results = NoCall
    /\ returned = <<>>
    /\ stats = NoStats

NoWindow ==
    /\ process_combo = ""
    /\ page_size = 0
    /\ page_table = <<>>
    /\ mapping = [virtual_address |-> 0, physical_address |-> 0,
                  page_number |-> 0, frame_number |-> 0, offset |-> 0,
                  result |-> ""]

NoGenerator ==
    /\ args = <<>>
    /\ access = NoAccess

NoCollector ==
    /\ running = FALSE
    /\ collector = ""
    /\ data_ready = 0
    /\ gui = ""
    /\ calling = ""
    /\ refresh_rate = 0
    /\ current_index = 0
    /\ after_stop = [accesses |-> 0, emits |-> 0, retried |-> FALSE]

NoReplacement ==
    /\ algo_combo = ""
    /\ algorithm = ""
    /\ frames = <<>>
    /\ reference_string = <<>>
    /\ current_step = 0
    /\ page_faults = 0
    /\ animation_active = FALSE
    /\ start_btn = ""
    /\ load_step = <<>>

InitSim == InitSimulator /\ NoWindow /\ NoGenerator /\ NoReplacement /\ NoCollector

NextSim == AccessPage

SpecSim == InitSim /\ [][NextSim]_vars

InitEPS == InitWindow /\ NoSimulator /\ NoGenerator /\ NoReplacement /\ NoCollector

NextEPS ==
    \/ TranslateAddress
    \/ OnProcessChange
    \/ OnPageSizeChange

SpecEPS == InitEPS /\ [][NextEPS]_vars

\* the two address translations of the repository: the translation tab of
\* EnhancedPagingSystem, or one call of generate_memory_access
InitTranslation ==
    \/ InitWindow /\ NoSimulator /\ NoGenerator /\ NoReplacement /\ NoCollector
    \/ InitAccess /\ NoSimulator /\ NoWindow /\ NoReplacement /\ NoCollector

NextTranslation ==
    \/ TranslateAddress
    \/ OnProcessChange
    \/ OnPageSizeChange
    \/ GenerateMemoryAccess

SpecTranslation == InitTranslation /\ [][NextTranslation]_vars

\* every access that looks a page up: access_page of a PageTableSimulator,
\* the translation tab, or one call of generate_memory_access
InitAccesses ==
    \/ InitSim
    \/ InitTranslation

NextAccesses ==
    \/ DOMAIN processes # {} /\ AccessPage
    \/ NextTranslation

SpecAccesses == InitAccesses /\ [][NextAccesses]_vars

\* a PageTableSimulator whose statistics are read between the accesses
InitStats == InitSim

NextStats ==
    \/ AccessPage
    \/ SimulateRandomAccess
    \/ GetAccessStats

SpecStats == InitStats /\ [][NextStats]_vars

\* the page replacement tab of EnhancedPagingSystem
InitRepl == InitReplacement /\ NoSimulator /\ NoWindow /\ NoGenerator /\ NoCollector

NextRepl ==
    \/ StepAnimation
    \/ TimerTimeout
    \/ toggle_animation
    \/ OnAlgorithmChange
    \/ generate_new_reference

SpecRepl == InitRepl /\ [][NextRepl]_vars

\* the collector thread and the GUI thread of MemoryVisualizerApp
InitCol ==
    InitCollector /\ NoSimulator /\ NoWindow /\ NoGenerator /\ NoReplacement

NextCol ==
    \/ CollectorStep
    \/ update_ui
    \/ on_process_select
    \/ OnRefreshRateChange
    \/ ShowView
    \/ HandlerReturns
    \/ closeEvent
    \/ WaitReturns

\* the collector thread keeps running (its sleeps end), and the GUI thread
\* leaves wait() once the thread has finished
SpecCol ==
    InitCol /\ [][NextCol]_vars /\ WF_vars(CollectorStep) /\ WF_vars(WaitReturns)

\* the "Start Animation" press: toggle_animation while no animation runs
StartButton ==
    /\ ~animation_active
    /\ toggle_animation

\* the tab after the user may have selected an algorithm
InitAnimation ==
    /\ InitReplacement \/ \E alg \in Algorithms :
                             /\ algo_combo = alg
                             /\ algorithm = alg
                             /\ frames = EmptyFrames
                             /\ reference_string \in [1..RefLength -> RefPages]
                             /\ current_step = 0
                             /\ page_faults = 0
                             /\ animation_active = FALSE
                             /\ start_btn = "Start Animation"
                             /\ load_step = NeverLoaded
    /\ NoSimulator /\ NoWindow /\ NoGenerator /\ NoCollector

\* a run of the animation that nothing resets or stops from outside: the
\* timer fires while the animation is active, the "Step" button may be
\* pressed, and the animation may be started again
NextAnimation ==
    \/ StepAnimation
    \/ TimerTimeout
    \/ StartButton

\* QTimer keeps firing every second while it is started
SpecAnimation == InitAnimation /\ [][NextAnimation]_vars /\ WF_vars(TimerTimeout)

(***************************************************************************)
(* Properties of PageTableSimulator, checked under SpecSim.                *)
(***************************************************************************)
Resident(p, n) == processes[p][n].Valid_Bit = 1

\* C1: no two page-table entries with Valid Bit 1, of the same or of
\* different processes, hold the same Physical Frame.
C1_FrameExclusive ==
    \A p \in DOMAIN processes, q \in DOMAIN processes :
        \A n \in DOMAIN processes[p], m \in DOMAIN processes[q] :
            (/\ <<p, n>> # <<q, m>>
             /\ Resident(p, n)
             /\ Resident(q, m))
            => processes[p][n].Physical_Frame # processes[q][m].Physical_Frame

\* C2: an entry (process, page) has Valid Bit 1 with frame f if and only if
\* physical_frames[f] records exactly that (process, page) as the occupant.
C2_TableMatchesFrames ==
    \A p \in DOMAIN processes :
        \A n \in DOMAIN processes[p] :
            \A f \in Frames :
                (Resident(p, n) /\ processes[p][n].Physical_Frame = f)
                <=> (/\ f \in DOMAIN physical_frames
                     /\ physical_frames[f] = [process |-> p, page |-> n])

\* C3: a fault that binds a frame which physical_frames already records as
\* occupied is aborted: the occupant record is not overwritten and the
\* faulting page is not made resident.
C3_OccupiedFrameNotOverwritten ==
    [][\A f \in DOMAIN physical_frames :
          /\ f \in DOMAIN physical_frames'
          /\ physical_frames'[f] = physical_frames[f]
          /\ \A p \in DOMAIN processes :
                \A n \in DOMAIN processes[p] :
                    (~Resident(p, n) /\ processes'[p][n].Valid_Bit = 1)
                    => processes'[p][n].Physical_Frame # f]_vars

\* C7: an access to an existing page whose Valid Bit is 0 returns 'fault'
\* and right after the call the page has Valid Bit 1 and a Physical Frame
\* that is not None.
C7_FaultLoadsThePage ==
    [][\A p \in DOMAIN processes :
          \A n \in DOMAIN processes[p] :
              (/\ results'.process = p
               /\ results'.page = n
               /\ processes[p][n].Valid_Bit = 0)
              => (/\ results'.result = "fault"
                  /\ processes'[p][n].Valid_Bit = 1
                  /\ processes'[p][n].Physical_Frame # None)]_vars

\* C7 witness: the last call faulted on an existing page, which is now
\* resident in a frame.
C7_Witness ==
    /\ results.result = "fault"
    /\ results.process \in DOMAIN processes
    /\ results.page \in DOMAIN processes[results.process]
    /\ processes[results.process][results.page].Valid_Bit = 1
    /\ processes[results.process][results.page].Physical_Frame \in Frames
    /\ access_history.faults >= 1

C10_MissingPageIsNotAFault ==
    (/\ results # NoCall
     /\ \/ results.process \notin DOMAIN processes
        \/ results.page \notin Pages)
    => results.result # "fault"

(***************************************************************************)
(* Properties of EnhancedPagingSystem, checked under SpecEPS.              *)
(***************************************************************************)
\* a step of translate_address: the other handlers change one of the combos
Translated ==
    WindowExists /\ page_size' = page_size /\ process_combo' = process_combo

\* C4: an entry has a physical frame (other than the 'no frame' placeholder,
\* 0 in init_page_table, None in PageTableSimulator) exactly when its valid
\* bit is 1, for every process name.
C4_FrameIffValid ==
    /\ \A i \in DOMAIN page_table :
          (page_table[i].physical_frame # 0) <=> (page_table[i].valid_bit = 1)
    /\ \A p \in DOMAIN processes :
          \A n \in DOMAIN processes[p] :
              (processes[p][n].Physical_Frame # None)
              <=> (processes[p][n].Valid_Bit = 1)

\* C5: translate_address computes page = va div ps and offset = va mod ps,
\* and when the entry of that page is valid with frame f it reports the
\* physical address f * ps + offset.
C5_TranslationArithmetic ==
    [][Translated =>
          LET va     == mapping'.virtual_address
              page   == va \div page_size
              offset == va % page_size
          IN  /\ mapping'.page_number = page
              /\ mapping'.offset = offset
              /\ (page \in DOMAIN page_table /\ page_table[page].valid_bit = 1)
                 => (/\ mapping'.result = "success"
                     /\ mapping'.frame_number = page_table[page].physical_frame
                     /\ mapping'.physical_address =
                            page_table[page].physical_frame * page_size + offset)]_vars

\* C5 witness: an address beyond page 0 with a nonzero offset was translated
\* to frame * page_size + offset.
C5_Witness ==
    /\ mapping.result = "success"
    /\ mapping.page_number >= 1
    /\ mapping.offset > 0
    /\ mapping.frame_number >= 1
    /\ mapping.virtual_address = mapping.page_number * page_size + mapping.offset
    /\ mapping.physical_address = mapping.frame_number * page_size + mapping.offset

\* a call of generate_memory_access that translated its address ('hit' or
\* 'miss'): ps is the page size in bytes and k the entry of the page in the
\* table the call returns
AccessRoundTrip(r, a) ==
    LET ps == a.page_size * 1024
        va == r.virtual_address
        pa == r.physical_address
        table == r.updated_page_table[a.process_name]
        k == EntryIndex(table, va \div ps)
    IN  /\ k # None
        /\ pa \div ps = table[k].physical_frame
        /\ pa % ps = va % ps
        /\ (va \div ps) * ps + (va % ps) = va

\* C6: round trip.  For every successful translation (by translate_address
\* or by generate_memory_access) of a virtual address va with page size ps,
\* the physical address pa satisfies pa div ps = the frame installed for page
\* va div ps, pa mod ps = va mod ps, and (va div ps) * ps + (va mod ps) = va.
C6_RoundTrip ==
    [][/\ (Translated /\ mapping'.result = "success") =>
            LET va == mapping'.virtual_address
                pa == mapping'.physical_address
            IN  /\ (va \div page_size) \in DOMAIN page_table'
                /\ pa \div page_size = page_table'[va \div page_size].physical_frame
                /\ pa % page_size = va % page_size
                /\ (va \div page_size) * page_size + (va % page_size) = va
       /\ (access'.result \in {"hit", "miss"}) => AccessRoundTrip(access', args')]_vars

\* C6 witness: address 4100 was translated with 4 KB pages; the physical
\* address decomposes into the frame of page 1 and offset 4.
C6_Witness ==
    /\ mapping.result = "success"
    /\ mapping.virtual_address = 4100
    /\ page_size = 4096
    /\ 1 \in DOMAIN page_table
    /\ page_table[1].valid_bit = 1
    /\ page_table[1].referenced = 1
    /\ mapping.physical_address \div 4096 = page_table[1].physical_frame
    /\ mapping.physical_address % 4096 = 4

\* C8: when the page of the translated address is in the page table but not
\* valid, the translation faults and after that fault the page is valid (so
\* that a second translation of the address succeeds).
C8_FaultMakesPageValid ==
    [][(/\ Translated
        /\ mapping'.result = "fault"
        /\ mapping'.page_number \in DOMAIN page_table)
       => page_table'[mapping'.page_number].valid_bit = 1]_vars

(***************************************************************************)
(* Claims about referenced bits, page replacement and statistics           *)
(***************************************************************************)
\* C11: whenever an access finds the entry of the page valid (access_page
\* returns 'hit' or 'miss', translate_address succeeds, generate_memory_access
\* returns 'hit' or 'miss'), the referenced bit of that entry is 1 in the
\* resulting page table.
C11_ValidAccessMarksReferenced ==
    [][/\ (returned' # returned /\ results'.result \in {"hit", "miss"})
            => processes'[results'.process][results'.page].Referenced = 1
       /\ (Translated /\ mapping'.result = "success")
            => page_table'[mapping'.page_number].referenced = 1
       /\ (access'.result \in {"hit", "miss"})
            => LET table == access'.updated_page_table[args'.process_name]
               IN  table[EntryIndex(table, access'.page_number)].referenced = 1]_vars

\* C11 witness: access_page returned 'miss' for a page, after at least one
\* earlier call, and the entry of the page is referenced.
C11_Witness ==
    /\ Len(returned) >= 2
    /\ results.result = "miss"
    /\ processes[results.process][results.page].Valid_Bit = 1
    /\ processes[results.process][results.page].Referenced = 1

\* the pages resident in a list of frames
Residents(list) == {list[i] : i \in 1..Len(list)} \ {None}

\* no frame of the list is empty
Full(list) == ~Contains(list, None)

\* the step is a next_step that processes a reference
Processed == current_step' = current_step + 1

\* the page that step references
Referenced == reference_string[current_step + 1]

\* the pages the step removes from the frames
Evicted == Residents(frames) \ Residents(frames')

\* the step of the most recent reference to page p so far (0: none)
LastUse(p) ==
    LET uses == {i \in 1..current_step : reference_string[i] = p}
    IN  IF uses = {} THEN 0
        ELSE CHOOSE i \in uses : \A j \in uses : j <= i

\* C12: with algorithm 'FIFO', a fault with all frames occupied evicts the
\* resident page that was loaded longest ago, whatever hits happened since;
\* the evicted page is no longer resident, and a reference to a page that is
\* not resident is a fault.
C12_FIFOEvictsOldestLoad ==
    [][(algorithm = "FIFO" /\ Processed) =>
          /\ (~Contains(frames, Referenced) /\ Full(frames)) =>
                \E v \in Residents(frames) :
                    /\ Evicted = {v}
                    /\ ~Contains(frames', v)
                    /\ \A w \in Residents(frames) : load_step[v] <= load_step[w]
          /\ ~Contains(frames, Referenced) => page_faults' = page_faults + 1]_vars

\* C12 witness: FIFO ran 0, 1, 1, 2 on two frames: page 1 was hit, then the
\* fault on page 2 evicted page 0, the older load.
C12_Witness ==
    /\ algorithm = "FIFO"
    /\ current_step = 4
    /\ SubSeq(reference_string, 1, 4) = <<0, 1, 1, 2>>
    /\ Run("FIFO", reference_string, 3).frames = Run("FIFO", reference_string, 2).frames
    /\ ~Contains(frames, 0)
    /\ Contains(frames, 1)

\* C13: with algorithm 'LRU', a fault with all frames occupied evicts the
\* resident page whose most recent reference (load or hit) is the oldest.
C13_LRUEvictsLeastRecent ==
    [][(algorithm = "LRU" /\ Processed
        /\ ~Contains(frames, Referenced) /\ Full(frames)) =>
          \E v \in Residents(frames) :
              /\ Evicted = {v}
              /\ \A w \in Residents(frames) : LastUse(v) <= LastUse(w)]_vars

\* C14: with algorithm 'Clock', a resident page that was hit after its load
\* is not the victim of the next fault with all frames occupied while another
\* resident page has not been referenced since its load.
C14_ClockSecondChance ==
    [][(algorithm = "Clock" /\ Processed
        /\ ~Contains(frames, Referenced) /\ Full(frames)
        /\ \E w \in Residents(frames) : LastUse(w) = load_step[w]) =>
          \A v \in Evicted : LastUse(v) = load_step[v]]_vars

\* C15: for every reference string, at every step of a run with algorithm
\* 'Clock' the frames and page_faults are those of the run with algorithm
\* 'FIFO' on the same string from the same empty start.
C15_ClockRunsAsFIFO ==
    algorithm = "Clock" =>
        /\ frames = Run("FIFO", reference_string, current_step).frames
        /\ page_faults = Run("FIFO", reference_string, current_step).page_faults

\* C15 witness: Clock ran 0, 1, 0, 2 on two frames; the hit on page 0 did not
\* save it from the fault on page 2.
C15_Witness ==
    /\ algorithm = "Clock"
    /\ current_step = 4
    /\ SubSeq(reference_string, 1, 4) = <<0, 1, 0, 2>>
    /\ page_faults = 3
    /\ ~Contains(frames, 0)
    /\ Contains(frames, 1)

\* C16: a fault evicts a page only when no frame is empty, and then exactly
\* one resident page is removed; while a frame is empty a fault loads the
\* page and every page that was resident stays resident.
C16_EvictOnlyWhenFull ==
    [][(Processed /\ ~Contains(frames, Referenced)) =>
          /\ Contains(frames', Referenced)
          /\ IF Full(frames)
             THEN Cardinality(Evicted) = 1
             ELSE /\ Evicted = {}
                  /\ Residents(frames') = Residents(frames) \cup {Referenced}]_vars

\* C16 witness: three faults were processed on frames that are now full, so
\* a frame was filled while another was empty and a page was evicted later.
C16_Witness ==
    /\ page_faults = NumFrames + 1
    /\ Full(frames)
    /\ Cardinality(Residents(frames)) = NumFrames

\* C17: with FIFO, LRU or Clock, after every next_step that processes a
\* reference the referenced page is resident in frames.
C17_ReferencedPageResident ==
    current_step >= 1 => Contains(frames, reference_string[current_step])

\* C17 witness: with LRU the last reference was a hit that followed a
\* replacement, and the page is resident.
C17_Witness ==
    /\ algorithm = "LRU"
    /\ current_step = RefLength
    /\ page_faults = NumFrames + 1
    /\ reference_string[current_step] = reference_string[current_step - 1]
    /\ Contains(frames, reference_string[current_step])

\* the smaller of two numbers
Min(a, b) == IF a <= b THEN a ELSE b

Returned(result) == Cardinality({i \in 1..Len(returned) : returned[i] = result})

C20_StatsReadOnly ==
    [][returned' = returned =>
          /\ UNCHANGED <<processes, physical_frames, access_history>>
          /\ stats # NoStats => stats' = stats]_vars

\* C20 witness: the statistics were read after accesses were made; the
\* value returned shows them.
C20_Witness ==
    /\ stats # NoStats
    /\ Len(returned) >= 2
    /\ stats.hits + stats.misses + stats.faults = Len(returned)
    /\ stats.history = access_history.history

(***************************************************************************)
(* Claims about the frame records and the frame effect of access_page      *)
(***************************************************************************)
\* C22: for every frame f present in physical_frames, the recorded occupant
\* (process, page) is a page-table entry with Valid Bit 1 whose Physical
\* Frame is f.
C22_OccupantIsResidentInFrame ==
    \A f \in DOMAIN physical_frames :
        LET o == physical_frames[f] IN
        /\ o.process \in DOMAIN processes
        /\ o.page \in DOMAIN processes[o.process]
        /\ processes[o.process][o.page].Valid_Bit = 1
        /\ processes[o.process][o.page].Physical_Frame = f

\* C22 witness: the last call faulted and bound its page to a frame that
\* another resident page holds too; the record names the faulting page.
C22_Witness ==
    /\ results.result = "fault"
    /\ results.process \in DOMAIN processes
    /\ results.page \in DOMAIN processes[results.process]
    /\ LET f == processes[results.process][results.page].Physical_Frame IN
       /\ f \in DOMAIN physical_frames
       /\ physical_frames[f] = [process |-> results.process, page |-> results.page]
       /\ \E q \in DOMAIN processes :
             \E m \in DOMAIN processes[q] :
                /\ <<q, m>> # <<results.process, results.page>>
                /\ Resident(q, m)
                /\ processes[q][m].Physical_Frame = f

\* C23: residency is permanent: an entry that has Valid Bit 1 with frame f
\* has Valid Bit 1 with the same frame f after every later access_page call.
C23_ResidencyPermanent ==
    [][\A p \in DOMAIN processes :
          \A n \in DOMAIN processes[p] :
              Resident(p, n) =>
                  /\ processes'[p][n].Valid_Bit = 1
                  /\ processes'[p][n].Physical_Frame = processes[p][n].Physical_Frame]_vars

\* C23 witness: every page is resident, and calls on resident pages (a hit
\* and a miss) have been made after a fault.
C23_Witness ==
    /\ \A p \in DOMAIN processes : \A n \in DOMAIN processes[p] : Resident(p, n)
    /\ Len(returned) = 3
    /\ returned[1] = "fault"
    /\ returned[2] = "hit"
    /\ returned[3] = "miss"

\* C24: access_page(p, n) leaves every entry other than (p, n) unchanged; on
\* the fault path it leaves the Referenced and Modified bits of (p, n)
\* unchanged; when p is unknown or n is not in the table of p it leaves all
\* page tables and physical_frames unchanged and changes only the faults
\* counter and the history.
C24_FrameEffect ==
    [][returned' # returned =>
          LET p == results'.process
              n == results'.page
              known == p \in DOMAIN processes /\ n \in DOMAIN processes[p]
          IN  /\ DOMAIN processes' = DOMAIN processes
              /\ \A q \in DOMAIN processes :
                    /\ DOMAIN processes'[q] = DOMAIN processes[q]
                    /\ \A m \in DOMAIN processes[q] :
                          <<q, m>> # <<p, n>> => processes'[q][m] = processes[q][m]
              /\ (known /\ processes[p][n].Valid_Bit = 0) =>
                    /\ processes'[p][n].Referenced = processes[p][n].Referenced
                    /\ processes'[p][n].Modified = processes[p][n].Modified
              /\ ~known =>
                    /\ processes' = processes
                    /\ physical_frames' = physical_frames
                    /\ access_history'.hits = access_history.hits
                    /\ access_history'.misses = access_history.misses
                    /\ access_history'.faults = access_history.faults + 1]_vars

\* C24 witness: after a fault on an existing page that left its Referenced
\* bit 0, a call named a page that is not in the table of its process.
C24_Witness ==
    /\ Len(returned) >= 2
    /\ results.result = "fault"
    /\ results.process \in DOMAIN processes
    /\ results.page \notin DOMAIN processes[results.process]
    /\ \E n \in DOMAIN processes[results.process] :
          /\ Resident(results.process, n)
          /\ processes[results.process][n].Referenced = 0

(***************************************************************************)
(* Claims about the state of the page replacement tab                      *)
(***************************************************************************)
\* C25: after any sequence of next_step, set_algorithm and
\* generate_reference_string calls, frames has exactly as many slots as at
\* construction and no page number occupies more than one slot.
C25_FramesWellFormed ==
    /\ Len(frames) = NumFrames
    /\ \A i \in 1..Len(frames), j \in 1..Len(frames) :
          (i # j /\ frames[i] = frames[j]) => frames[i] = None

\* C25 witness: with LRU a hit came before the frames were full and a page
\* was replaced later; the frames are full.
C25_Witness ==
    /\ algorithm = "LRU"
    /\ current_step = 4
    /\ reference_string[1] = reference_string[2]
    /\ page_faults = 3
    /\ Full(frames)

\* C26: 0 <= page_faults <= current_step <= len(reference_string) in every
\* reachable state; next_step raises page_faults by 1 exactly when the
\* referenced page was not in frames before the step; a next_step call when
\* current_step = len(reference_string) changes none of frames, page_faults
\* and current_step.
C26_CountersInOrder ==
    /\ [](/\ 0 <= page_faults
          /\ page_faults <= current_step
          /\ current_step <= Len(reference_string))
    /\ [][/\ (Processed =>
                (page_faults' = page_faults +
                    (IF Contains(frames, Referenced) THEN 0 ELSE 1)))
           /\ ((/\ current_step = Len(reference_string)
                /\ animation_active /\ ~animation_active'
                /\ start_btn' = start_btn)
               => UNCHANGED <<frames, page_faults, current_step>>)]_vars

\* C26 witness: the timer ticked at the end of a reference string in which
\* one reference was a hit: the animation is stopped, the button still
\* shows the running state, and page_faults is below current_step.
C26_Witness ==
    /\ current_step = Len(reference_string)
    /\ page_faults = current_step - 1
    /\ ~animation_active
    /\ start_btn = "Stop Animation"

\* C28: the start/stop button reads 'Stop Animation' exactly when
\* animation_active is True and 'Start Animation' exactly when it is False.
C28_ButtonShowsAnimationState ==
    /\ start_btn = "Stop Animation" <=> animation_active
    /\ start_btn = "Start Animation" <=> ~animation_active

\* C29: the algorithm next_step applies is always the one selected in the
\* algorithm combo box.
C29_AlgorithmIsComboSelection == algorithm = algo_combo

\* the references next_step has still to process
Remaining == Len(reference_string) - current_step

\* C27: once the animation has been started, if the timer keeps firing and
\* nothing resets the run, the animation stops by itself: every tick while it
\* is active processes one reference, the tick that processes the last one
\* (or the one tick made at the end of the string) sets animation_active to
\* False, so that it is False after at most len(reference_string) -
\* current_step ticks, with current_step = len(reference_string).
C27_AnimationStopsByItself ==
    /\ [][(animation_active /\ start_btn' = start_btn) =>
             IF Remaining = 0
             THEN ~animation_active' /\ current_step' = current_step
             ELSE /\ Remaining' = Remaining - 1
                  /\ animation_active' <=> Remaining' > 0]_vars
    /\ animation_active ~>
            (~animation_active /\ current_step = Len(reference_string))

\* C27 witness: the animation was started at the end of the reference
\* string reached with the "Step" button.
C27_Witness ==
    /\ animation_active
    /\ current_step = Len(reference_string)
    /\ page_faults > NumFrames

(***************************************************************************)
(* Claims about the collector thread                                       *)
(***************************************************************************)
\* the executions of access_page in progress
InProgress ==
    (IF collector = "access_page" THEN 1 ELSE 0)
    + (IF calling \in SimulatorMutators THEN 1 ELSE 0)

\* C21: with the collector thread and the GUI thread running concurrently,
\* at most one execution of access_page is in progress at any instant, and
\* no handler of the GUI thread calls a mutating operation of the simulator.
C21_AccessesSerialized ==
    /\ InProgress <= 1
    /\ calling \notin SimulatorMutators

\* C21 witness: the collector thread is inside access_page while the GUI
\* thread is inside update_segmentation, calling generate_memory_segments.
C21_Witness ==
    /\ collector = "access_page"
    /\ gui = "update_ui"
    /\ calling = "generate_memory_segments"

\* C30: after stop() has set running to False the run loop finishes its
\* current iteration and exits: at most one simulate_random_access call and
\* one data_ready signal are made after that, the loop test leads out of the
\* loop, a finished thread stays finished, and the wait() of stop()
\* eventually returns; the retry path of an exception included.
C30_StopEndsTheCollector ==
    /\ [](/\ after_stop.accesses <= 1
          /\ after_stop.emits <= 1
          /\ ((collector = "finished") => ~running))
    /\ [][/\ ((~running /\ collector = "test") => (collector' \in {"test", "finished"}))
           /\ ((collector = "finished") => (collector' = "finished"))
           /\ ((~running) => (~running'))]_vars
    /\ (gui = "wait") ~> (gui = "closed" /\ collector = "finished")

\* C30 witness: stop() was called in an iteration that then raised an
\* exception; the thread has finished and wait() has returned.
C30_Witness ==
    /\ gui = "closed"
    /\ collector = "finished"
    /\ ~running
    /\ after_stop.retried
    /\ after_stop.emits = 0

====
